---- MODULE Spec2Model ----
(***************************************************************************)
(* On-call resolution pipeline of who-you-gonna-call (src/src/jira.rs,     *)
(* src/src/main.rs): schedule identifier -> schedule id -> on-call         *)
(* recipients -> per-user phone numbers -> AlertInfo, with the error       *)
(* taxonomy and its HTTP status mapping.                                   *)
(*                                                                         *)
(* Strings the code only passes around (usernames, schedule names and ids) *)
(* are TLA+ strings.  Strings the code computes on (contact destinations   *)
(* and phone numbers) are sequences of one-character strings, ordered as   *)
(* Rust orders String: bytewise lexicographically.                         *)
(***************************************************************************)
EXTENDS Integers, Sequences, FiniteSets, TLC

VARIABLES
    schedules,        \* provider: GET schedules?query=name, name -> answers given so far
    on_calls,         \* provider: GET schedules/{id}/on-calls, id -> answers given so far
    users,            \* provider: GET users/{username}, username -> answers given so far
    pc,               \* per request: the await point get_oncall_number is suspended at
    schedule,         \* per request: the ScheduleIdentifier of the request
    schedule_id,      \* per request: the resolved schedule id
    persons_on_call,  \* per request: on_call_recipients of the on-call answer
    result_list,      \* per request: Vec<UserPhoneNumber> built by the loop
    lookups,          \* per request: usernames whose contacts were requested, in order
    result,           \* per request: Result<AlertInfo, Error> of get_oncall_number
    status,           \* per request: HTTP status of the response
    user_contacts,    \* contact resolver run: the profile's user_contacts
    numbers,          \* contact resolver run: the Vec<String> returned
    cpc,              \* contact resolver run: position
    number,           \* normalizer run: the raw input
    formatted,        \* normalizer run: outputs of successive applications
    npc               \* normalizer run: position

vars == <<schedules, on_calls, users, pc, schedule, schedule_id, persons_on_call,
          result_list, lookups, result, status, user_contacts, numbers, cpc,
          number, formatted, npc>>

resolverVars == <<schedules, on_calls, users, pc, schedule, schedule_id,
                  persons_on_call, result_list, lookups, result, status>>
contactVars == <<user_contacts, numbers, cpc>>
normalizerVars == <<number, formatted, npc>>

(***************************************************************************)
(* Bounds                                                                  *)
(***************************************************************************)
MaxSchedules == 2    \* most schedules a search answer holds
MaxRecipients == 2   \* most recipients an on-call answer holds
MaxContacts == 3     \* most entries of a user's contact list
MaxDestLen == 3      \* longest raw destination given to the normalizer

SeqsUpTo(S, n) == UNION {[1..k -> S] : k \in 0..n}

(***************************************************************************)
(* Strings as character sequences                                          *)
(***************************************************************************)
Chars == {"+", "-", "1", "2"}

\* byte value of each character used
CharCode == [c \in {"+", "-", "1", "2", "9"} |->
                CASE c = "+" -> 43 [] c = "-" -> 45 [] c = "1" -> 49
                  [] c = "2" -> 50 [] c = "9" -> 57]

RECURSIVE StrLess(_, _)
StrLess(a, b) ==
    IF a = <<>> THEN b # <<>>
    ELSE IF b = <<>> THEN FALSE
    ELSE IF a[1] = b[1] THEN StrLess(Tail(a), Tail(b))
    ELSE CharCode[a[1]] < CharCode[b[1]]

RECURSIVE Insert(_, _)
Insert(x, s) ==
    IF s = <<>> THEN <<x>>
    ELSE IF StrLess(x, s[1]) THEN <<x>> \o s
    ELSE <<s[1]>> \o Insert(x, Tail(s))

\* Vec<String>::sort
RECURSIVE sort(_)
sort(s) == IF s = <<>> THEN <<>> ELSE Insert(s[1], sort(Tail(s)))

\* Vec<String>::dedup: drops every element equal to its predecessor
RECURSIVE dedup(_)
dedup(s) ==
    IF Len(s) <= 1 THEN s
    ELSE IF s[1] = s[2] THEN dedup(Tail(s))
    ELSE <<s[1]>> \o dedup(Tail(s))

(***************************************************************************)
(* Phone Number Normalizer                                                 *)
(***************************************************************************)
format_phone_number_keeps_plus(raw) ==
    LET stripped == SelectSeq(raw, LAMBDA c : c # "-")
    IN  IF stripped # <<>> /\ stripped[1] = "+" THEN stripped ELSE <<"+">> \o stripped

format_phone_number(raw) == <<"+">> \o SelectSeq(raw, LAMBDA c : c # "-")

(***************************************************************************)
(* Contact Resolver: the part of get_phone_number after the provider call  *)
(***************************************************************************)
Methods == {"voice", "sms", "email"}

is_phone_contact(user_contact) ==
    user_contact.contact_method = "voice" \/ user_contact.contact_method = "sms"

\* filter, then map format_phone_number over the destinations, then collect
phone_contacts(contacts) ==
    LET kept == SelectSeq(contacts, is_phone_contact)
    IN  [i \in 1..Len(kept) |-> format_phone_number(kept[i].to)]

get_phone_number_unsorted(contacts) == dedup(phone_contacts(contacts))

get_phone_number(contacts) == dedup(sort(phone_contacts(contacts)))

(***************************************************************************)
(* Error taxonomy and status mapping                                       *)
(***************************************************************************)
OK == 200
IM_A_TEAPOT == 418
UNPROCESSABLE_ENTITY == 422
INTERNAL_SERVER_ERROR == 500

Ok(v) == [ok |-> TRUE, value |-> v]
Err(e) == [ok |-> FALSE, error |-> e]

\* crate::util::Error, the failure of send_json_request
util_error == "util::Error"

RequestOnCallPerson == [kind |-> "RequestOnCallPerson", source |-> util_error]
RequestSchedule == [kind |-> "RequestSchedule", source |-> util_error]
RequestPhoneNumberForPerson(username) ==
    [kind |-> "RequestPhoneNumberForPerson", source |-> util_error, username |-> username]
NoOnCallPerson == [kind |-> "NoOnCallPerson"]
ScheduleNotFound(schedule_name) ==
    [kind |-> "ScheduleNotFound", schedule_name |-> schedule_name]
TooManySchedulesFound(schedule_name, schedules_found) ==
    [kind |-> "TooManySchedulesFound", schedule_name |-> schedule_name,
     schedules_found |-> schedules_found]
NoPhoneNumber(username) == [kind |-> "NoPhoneNumber", username |-> username]

status_code_all_transport_422(error) ==
    CASE error.kind = "RequestOnCallPerson" -> UNPROCESSABLE_ENTITY
      [] error.kind = "NoOnCallPerson" -> IM_A_TEAPOT
      [] error.kind = "NoPhoneNumber" -> IM_A_TEAPOT
      [] error.kind = "RequestPhoneNumberForPerson" -> UNPROCESSABLE_ENTITY
      [] error.kind = "RequestSchedule" -> UNPROCESSABLE_ENTITY
      [] error.kind = "ScheduleNotFound" -> UNPROCESSABLE_ENTITY
      [] error.kind = "TooManySchedulesFound" -> UNPROCESSABLE_ENTITY

status_code(error) ==
    CASE error.kind = "RequestOnCallPerson" -> UNPROCESSABLE_ENTITY
      [] error.kind = "NoOnCallPerson" -> IM_A_TEAPOT
      [] error.kind = "NoPhoneNumber" -> IM_A_TEAPOT
      [] error.kind = "RequestPhoneNumberForPerson" -> INTERNAL_SERVER_ERROR
      [] error.kind = "RequestSchedule" -> INTERNAL_SERVER_ERROR
      [] error.kind = "ScheduleNotFound" -> UNPROCESSABLE_ENTITY
      [] error.kind = "TooManySchedulesFound" -> UNPROCESSABLE_ENTITY

\* RequestError::OpsGenie { source }: the status is the source's
RequestError_status_code(source) == status_code(source)

(***************************************************************************)
(* The provider: every endpoint answers with a transport failure or a      *)
(* body, and gives the same answer every time it is asked the same thing.  *)
(***************************************************************************)
ScheduleNames == {"Team A"}
ScheduleIds == {"abc", "xyz"}
Usernames == {"alice", "bob"}

Failure == [ok |-> FALSE, body |-> <<>>]
Body(b) == [ok |-> TRUE, body |-> b]

UserContact(to, contact_method, enabled) ==
    [to |-> to, contact_method |-> contact_method, enabled |-> enabled]

\* contact lists the users of the roster have
Profiles ==
    { <<UserContact(<<"9">>, "email", TRUE)>>,
      <<UserContact(<<"1", "-", "2">>, "voice", TRUE),
        UserContact(<<"1", "-", "2">>, "sms", TRUE),
        UserContact(<<"9">>, "email", TRUE)>>,
      <<UserContact(<<"9">>, "sms", FALSE),
        UserContact(<<"1", "-", "2">>, "voice", TRUE)>> }

ScheduleAnswers == {Failure} \cup {Body([i \in 1..Len(s) |-> [id |-> s[i]]]) :
                                     s \in SeqsUpTo(ScheduleIds, MaxSchedules)}
OnCallAnswers == {Failure} \cup {Body(s) : s \in SeqsUpTo(Usernames, MaxRecipients)}
UserAnswers == {Failure} \cup {Body(p) : p \in Profiles}

\* the answers an endpoint can give: any, unless it has answered already
Answers(given, all) == IF given = {} THEN all ELSE given

(***************************************************************************)
(* Schedule Resolver: get_schedule_id_by_name after its provider call      *)
(***************************************************************************)
get_schedule_id_by_name_inverted(schedule_name, answer) ==
    IF ~answer.ok THEN Err(RequestSchedule)
    ELSE IF Len(answer.body) = 1
         THEN Err(TooManySchedulesFound(schedule_name, Len(answer.body)))
    ELSE IF Len(answer.body) < 1 THEN Err(ScheduleNotFound(schedule_name))
    ELSE Ok(answer.body[1].id)

get_schedule_id_by_name(schedule_name, answer) ==
    IF ~answer.ok THEN Err(RequestSchedule)
    ELSE IF ~(Len(answer.body) = 1)
         THEN Err(TooManySchedulesFound(schedule_name, Len(answer.body)))
    ELSE IF Len(answer.body) < 1 THEN Err(ScheduleNotFound(schedule_name))
    ELSE Ok(answer.body[1].id)

(***************************************************************************)
(* On-Call Resolver: the synchronous pieces of get_oncall_number           *)
(***************************************************************************)
ScheduleById(id) == [by |-> "id", value |-> id]
ScheduleByName(name) == [by |-> "name", value |-> name]
ScheduleIdentifier == {ScheduleById(id) : id \in ScheduleIds}
                        \cup {ScheduleByName(name) : name \in ScheduleNames}
NoSchedule == [by |-> "none", value |-> ""]

\* the on-call answer, checked for a first recipient
on_call_recipients_empty_is_failure(answer) ==
    IF ~answer.ok THEN Err(RequestOnCallPerson)
    ELSE IF Len(answer.body) = 0 THEN Err(RequestOnCallPerson)
    ELSE Ok(answer.body)

on_call_recipients(answer) ==
    IF ~answer.ok THEN Err(RequestOnCallPerson)
    ELSE IF Len(answer.body) = 0 THEN Err(NoOnCallPerson)
    ELSE Ok(answer.body)

\* one turn of the loop: the contact answer of `user` becomes an entry or the error
lookup_best_effort(user, answer) ==
    IF ~answer.ok THEN Ok([name |-> user, phone |-> <<>>])
    ELSE Ok([name |-> user, phone |-> get_phone_number(answer.body)])

lookup(user, answer) ==
    IF ~answer.ok THEN Err(RequestPhoneNumberForPerson(user))
    ELSE Ok([name |-> user, phone |-> get_phone_number(answer.body)])

push_front(list, entry) == <<entry>> \o list

push(list, entry) == Append(list, entry)

AlertInfo(username, phone_number, full_information) ==
    [username |-> username, phone_number |-> phone_number,
     full_information |-> full_information]

\* what follows the loop
assemble_last_phone(list) ==
    IF Len(list) = 0 THEN Err(NoOnCallPerson)
    ELSE IF Len(list[1].phone) = 0 THEN Err(NoPhoneNumber(list[1].name))
    ELSE Ok(AlertInfo(list[1].name, list[1].phone[Len(list[1].phone)], list))

assemble_every_phone(list) ==
    IF Len(list) = 0 THEN Err(NoOnCallPerson)
    ELSE IF \E i \in 1..Len(list) : Len(list[i].phone) = 0
         THEN Err(NoPhoneNumber(list[CHOOSE i \in 1..Len(list) : Len(list[i].phone) = 0].name))
    ELSE Ok(AlertInfo(list[1].name, list[1].phone[1], list))

assemble(list) ==
    IF Len(list) = 0 THEN Err(NoOnCallPerson)
    ELSE IF Len(list[1].phone) = 0 THEN Err(NoPhoneNumber(list[1].name))
    ELSE Ok(AlertInfo(list[1].name, list[1].phone[1], list))

(***************************************************************************)
(* Requests                                                                *)
(***************************************************************************)
Requests == {1, 2}

\* no Result yet
Pending == [ok |-> FALSE, error |-> [kind |-> "pending"]]

\* get_person_on_call answers: Json(AlertInfo), or the error's JsonResponse
Respond(r, res) ==
    /\ pc' = [pc EXCEPT ![r] = "done"]
    /\ result' = [result EXCEPT ![r] = res]
    /\ status' = [status EXCEPT ![r] =
                     IF res.ok THEN OK ELSE RequestError_status_code(res.error)]

\* a request arrives; get_oncall_number runs up to its first provider call
get_person_on_call(r) ==
    /\ pc[r] = "idle"
    /\ \E requested_schedule \in ScheduleIdentifier :
          /\ schedule' = [schedule EXCEPT ![r] = requested_schedule]
          /\ IF requested_schedule.by = "id"
             THEN /\ schedule_id' = [schedule_id EXCEPT ![r] = requested_schedule.value]
                  /\ pc' = [pc EXCEPT ![r] = "on_calls"]
             ELSE /\ pc' = [pc EXCEPT ![r] = "schedules"]
                  /\ UNCHANGED schedule_id
    /\ UNCHANGED <<schedules, on_calls, users, persons_on_call, result_list, lookups,
                   result, status>>
    /\ UNCHANGED <<contactVars, normalizerVars>>

\* the schedule search answers
RequestScheduleStep(r) ==
    /\ pc[r] = "schedules"
    /\ \E answer \in Answers(schedules[schedule[r].value], ScheduleAnswers) :
          LET id == get_schedule_id_by_name(schedule[r].value, answer)
          IN  /\ schedules' = [schedules EXCEPT ![schedule[r].value] = {answer}]
              /\ IF id.ok
                 THEN /\ schedule_id' = [schedule_id EXCEPT ![r] = id.value]
                      /\ pc' = [pc EXCEPT ![r] = "on_calls"]
                      /\ UNCHANGED <<result, status>>
                 ELSE /\ Respond(r, id)
                      /\ UNCHANGED schedule_id
    /\ UNCHANGED <<on_calls, users, schedule, persons_on_call, result_list, lookups>>
    /\ UNCHANGED <<contactVars, normalizerVars>>

\* the on-call lookup answers
RequestOnCallStep(r) ==
    /\ pc[r] = "on_calls"
    /\ \E answer \in Answers(on_calls[schedule_id[r]], OnCallAnswers) :
          LET recipients == on_call_recipients(answer)
          IN  /\ on_calls' = [on_calls EXCEPT ![schedule_id[r]] = {answer}]
              /\ IF recipients.ok
                 THEN /\ persons_on_call' = [persons_on_call EXCEPT ![r] = recipients.value]
                      /\ pc' = [pc EXCEPT ![r] = "users"]
                      /\ UNCHANGED <<result, status>>
                 ELSE /\ Respond(r, recipients)
                      /\ UNCHANGED persons_on_call
    /\ UNCHANGED <<schedules, users, schedule, schedule_id, result_list, lookups>>
    /\ UNCHANGED <<contactVars, normalizerVars>>

\* the contact lookup of the next recipient answers; after the last one the
\* AlertInfo is assembled
RequestPhoneNumberStep(r) ==
    /\ pc[r] = "users"
    /\ LET user == persons_on_call[r][Len(result_list[r]) + 1]
       IN  \E answer \in Answers(users[user], UserAnswers) :
              LET entry == lookup(user, answer)
                  list == push(result_list[r], entry.value)
              IN  /\ users' = [users EXCEPT ![user] = {answer}]
                  /\ lookups' = [lookups EXCEPT ![r] = Append(@, user)]
                  /\ IF ~entry.ok
                     THEN /\ Respond(r, entry)
                          /\ UNCHANGED result_list
                     ELSE /\ result_list' = [result_list EXCEPT ![r] = list]
                          /\ IF Len(list) = Len(persons_on_call[r])
                             THEN Respond(r, assemble(list))
                             ELSE UNCHANGED <<pc, result, status>>
    /\ UNCHANGED <<schedules, on_calls, schedule, schedule_id, persons_on_call>>
    /\ UNCHANGED <<contactVars, normalizerVars>>

ResolverInit ==
    /\ schedules = [n \in ScheduleNames |-> {}]
    /\ on_calls = [id \in ScheduleIds |-> {}]
    /\ users = [u \in Usernames |-> {}]
    /\ pc = [r \in Requests |-> "idle"]
    /\ schedule = [r \in Requests |-> NoSchedule]
    /\ schedule_id = [r \in Requests |-> ""]
    /\ persons_on_call = [r \in Requests |-> <<>>]
    /\ result_list = [r \in Requests |-> <<>>]
    /\ lookups = [r \in Requests |-> <<>>]
    /\ result = [r \in Requests |-> Pending]
    /\ status = [r \in Requests |-> 0]

ContactIdle == user_contacts = <<>> /\ numbers = <<>> /\ cpc = "off"
NormalizerIdle == number = <<>> /\ formatted = <<>> /\ npc = "off"

Init == ResolverInit /\ ContactIdle /\ NormalizerIdle

Next ==
    \E r \in Requests :
        \/ get_person_on_call(r)
        \/ RequestScheduleStep(r)
        \/ RequestOnCallStep(r)
        \/ RequestPhoneNumberStep(r)

Spec == Init /\ [][Next]_vars

(***************************************************************************)
(* The Contact Resolver on its own: every contact list up to MaxContacts   *)
(***************************************************************************)
ContactDests == { <<"1", "-", "2">>, <<"1", "2">>, <<"9">>, <<"-", "1">> }
UserContacts == {UserContact(to, m, e) : to \in ContactDests, m \in Methods, e \in BOOLEAN}

ContactInit ==
    /\ user_contacts \in SeqsUpTo(UserContacts, MaxContacts)
    /\ numbers = <<>>
    /\ cpc = "call"
    /\ ResolverInit /\ NormalizerIdle

GetPhoneNumber ==
    /\ cpc = "call"
    /\ numbers' = get_phone_number(user_contacts)
    /\ cpc' = "returned"
    /\ UNCHANGED <<user_contacts, resolverVars, normalizerVars>>

ContactNext == GetPhoneNumber

SpecContact == ContactInit /\ [][ContactNext]_vars

(***************************************************************************)
(* The Normalizer on its own: every raw destination up to MaxDestLen,      *)
(* normalized and then normalized again                                    *)
(***************************************************************************)
NormalizerInit ==
    /\ number \in SeqsUpTo(Chars, MaxDestLen)
    /\ formatted = <<>>
    /\ npc = "call"
    /\ ResolverInit /\ ContactIdle

FormatPhoneNumber ==
    /\ npc = "call"
    /\ formatted' = <<format_phone_number(number)>>
    /\ npc' = "once"
    /\ UNCHANGED <<number, resolverVars, contactVars>>

FormatPhoneNumberAgain ==
    /\ npc = "once"
    /\ formatted' = Append(formatted, format_phone_number(formatted[1]))
    /\ npc' = "twice"
    /\ UNCHANGED <<number, resolverVars, contactVars>>

NormalizerNext == FormatPhoneNumber \/ FormatPhoneNumberAgain

SpecNormalize == NormalizerInit /\ [][NormalizerNext]_vars

(***************************************************************************)
(* What a finished request went through, read off the provider's answers   *)
(***************************************************************************)
Done(r) == pc[r] = "done"

\* the schedule search of request r was made and answered `answer`
SearchAnswered(r, answer) ==
    Done(r) /\ schedule[r].by = "name" /\ schedules[schedule[r].value] = {answer}

\* the on-call lookup of request r was made and answered `answer`
OnCallAnswered(r, answer) ==
    Done(r) /\ schedule_id[r] # "" /\ on_calls[schedule_id[r]] = {answer}

\* the i-th contact lookup of request r failed
ContactFailed(r, i) ==
    Done(r) /\ i \in 1..Len(lookups[r]) /\ users[lookups[r][i]] = {Failure}

\* every recipient of request r was looked up, and none failed
AllContactsAnswered(r) ==
    /\ Done(r)
    /\ Len(persons_on_call[r]) > 0
    /\ Len(result_list[r]) = Len(persons_on_call[r])

TransportKinds == {"RequestOnCallPerson", "RequestSchedule", "RequestPhoneNumberForPerson"}

\* C1: whenever the schedule search succeeds with zero matches for a name,
\* the resolution fails with ScheduleNotFound carrying that name.
C1_ZeroMatchesIsScheduleNotFound ==
    \A r \in Requests :
        SearchAnswered(r, Body(<<>>))
            => ~result[r].ok /\ result[r].error = ScheduleNotFound(schedule[r].value)

\* C2 as stated: a transport failure at any of the three provider calls ends
\* the request with the internal-server-error status.
C2_EveryTransportFailureIs500 ==
    \A r \in Requests :
        (\/ SearchAnswered(r, Failure)
         \/ OnCallAnswered(r, Failure)
         \/ \E i \in 1..MaxRecipients : ContactFailed(r, i))
            => status[r] = INTERNAL_SERVER_ERROR

\* C2 as amended: a transport failure of the schedule search or of a contact
\* lookup ends the request with the internal-server-error status; a failed
\* on-call lookup ends it with the unprocessable status, never with the
\* "nothing to do" status or a success.
C2_TransportFailureStatus ==
    \A r \in Requests :
        /\ (SearchAnswered(r, Failure) \/ \E i \in 1..MaxRecipients : ContactFailed(r, i))
              => /\ ~result[r].ok
                 /\ status[r] = INTERNAL_SERVER_ERROR
        /\ OnCallAnswered(r, Failure)
              => /\ ~result[r].ok
                 /\ result[r].error.kind = "RequestOnCallPerson"
                 /\ status[r] = UNPROCESSABLE_ENTITY
                 /\ status[r] # IM_A_TEAPOT

C2_Witness ==
    \E r1, r2 \in Requests :
        /\ OnCallAnswered(r1, Failure)
        /\ schedule[r1].by = "name"
        /\ ContactFailed(r2, 2)

\* C3: every AlertInfo returned has a non-empty fullInformation whose first
\* entry has a phone number, names the first on-call recipient as username and
\* that entry's first phone number as phoneNumber.
C3_AlertInfoPrimaryContact ==
    \A r \in Requests :
        (Done(r) /\ result[r].ok) =>
            LET info == result[r].value
            IN  /\ info.full_information # <<>>
                /\ info.full_information[1].phone # <<>>
                /\ info.username = info.full_information[1].name
                /\ info.username = persons_on_call[r][1]
                /\ info.phone_number = info.full_information[1].phone[1]

C3_Witness ==
    \E r \in Requests :
        /\ Done(r) /\ result[r].ok
        /\ Len(result[r].value.full_information) = 2
        /\ Len(result[r].value.full_information[1].phone) = 2
        /\ result[r].value.phone_number = <<"+", "1", "2">>

\* C4: on success fullInformation has one entry per recipient the roster
\* provider returned, in the recipients' order.
C4_FullInformationInRecipientOrder ==
    \A r \in Requests :
        (Done(r) /\ result[r].ok) =>
            LET full == result[r].value.full_information
                recipients == persons_on_call[r]
            IN  /\ OnCallAnswered(r, Body(recipients))
                /\ Len(full) = Len(recipients)
                /\ \A i \in 1..Len(recipients) : full[i].name = recipients[i]

C4_Witness ==
    \E r \in Requests :
        /\ Done(r) /\ result[r].ok
        /\ OnCallAnswered(r, Body(<<"bob", "alice">>))
        /\ result[r].value.full_information[1].name = "bob"
        /\ result[r].value.full_information[2].name = "alice"

\* C5: if the contact lookup of any recipient fails, the resolution fails with
\* the contact-lookup error carrying that recipient's username and returns no
\* AlertInfo, whatever the other recipients' lookups gave.
C5_AllOrNothing ==
    \A r \in Requests : \A i \in 1..MaxRecipients :
        ContactFailed(r, i) =>
            /\ ~result[r].ok
            /\ result[r].error = RequestPhoneNumberForPerson(lookups[r][i])
            /\ lookups[r][i] = persons_on_call[r][i]

C5_Witness ==
    \E r \in Requests :
        /\ ContactFailed(r, 2)
        /\ Len(result_list[r]) = 1
        /\ result_list[r][1].phone = <<>>
        /\ result[r] = Err(RequestPhoneNumberForPerson(persons_on_call[r][2]))

\* C6: when the on-call lookup succeeds with an empty recipient list, the
\* resolution fails with NoOnCallPerson, which is no transport-failure variant,
\* and no contact lookup is made.
C6_EmptyRosterIsNoOnCallPerson ==
    \A r \in Requests :
        OnCallAnswered(r, Body(<<>>)) =>
            /\ ~result[r].ok
            /\ result[r].error = NoOnCallPerson
            /\ result[r].error.kind \notin TransportKinds
            /\ lookups[r] = <<>>

C6_Witness ==
    \E r \in Requests :
        /\ OnCallAnswered(r, Body(<<>>))
        /\ schedule[r].by = "name"
        /\ result[r] = Err(NoOnCallPerson)

\* C7: when all contact lookups succeed, the resolution fails with
\* NoPhoneNumber carrying the first recipient's username if the first recipient
\* has no phone number, and succeeds otherwise, whether or not a later
\* recipient has one.
C7_NoPhoneNumberOnlyForFirst ==
    \A r \in Requests :
        AllContactsAnswered(r) =>
            IF result_list[r][1].phone = <<>>
            THEN /\ ~result[r].ok
                 /\ result[r].error = NoPhoneNumber(persons_on_call[r][1])
            ELSE result[r].ok

C7_Witness ==
    \E r1, r2 \in Requests :
        /\ AllContactsAnswered(r1)
        /\ result[r1] = Err(NoPhoneNumber("alice"))
        /\ AllContactsAnswered(r2)
        /\ result[r2].ok
        /\ Len(result_list[r2]) = 2
        /\ result_list[r2][2].phone = <<>>

\* C8: a by-name request whose search returned exactly one schedule, with id
\* X, ends as the by-id request for X does: with the same AlertInfo or the
\* same error, and the same status.
C8_ByNameAsById ==
    \A r1, r2 \in Requests : \A id \in ScheduleIds :
        (/\ SearchAnswered(r1, Body(<<[id |-> id]>>))
         /\ Done(r2)
         /\ schedule[r2] = ScheduleById(id))
            => /\ result[r1] = result[r2]
               /\ status[r1] = status[r2]

C8_Witness ==
    \E r1, r2 \in Requests :
        /\ SearchAnswered(r1, Body(<<[id |-> "xyz"]>>))
        /\ Done(r2)
        /\ schedule[r2] = ScheduleById("xyz")
        /\ result[r1].ok
        /\ result[r2].ok

\* C9 as stated: normalizing the output of a normalization yields the same
\* string.
C9_NormalizeIdempotent ==
    npc = "twice" => formatted[2] = formatted[1]

\* C9 as amended: normalizing the output of a normalization removes nothing
\* (no hyphen is left) and puts one more "+" in front, so the result is never
\* the string it was given.
C9_NormalizeAgainAddsPlus ==
    npc = "twice" =>
        /\ formatted[2] = <<"+">> \o formatted[1]
        /\ formatted[2] # formatted[1]
        /\ \A i \in 1..Len(formatted[1]) : formatted[1][i] # "-"

C9_Witness ==
    /\ npc = "twice"
    /\ number = <<"1", "-", "2">>
    /\ formatted = << <<"+", "1", "2">>, <<"+", "+", "1", "2">> >>

\* C10: the numbers returned are strictly ascending, and are exactly the
\* normalized destinations of the entries whose method is "voice" or "sms",
\* enabled or not; there are none when there is no such entry.
C10_SortedDedupedVoiceSms ==
    cpc = "returned" =>
        LET phones == {i \in 1..Len(user_contacts) :
                          user_contacts[i].contact_method \in {"voice", "sms"}}
        IN  /\ \A i \in 1..(Len(numbers) - 1) : StrLess(numbers[i], numbers[i + 1])
            /\ {numbers[i] : i \in 1..Len(numbers)}
                  = {format_phone_number(user_contacts[i].to) : i \in phones}
            /\ (phones = {}) => (numbers = <<>>)

C10_Witness ==
    /\ cpc = "returned"
    /\ user_contacts = << UserContact(<<"9">>, "sms", FALSE),
                          UserContact(<<"1", "-", "2">>, "voice", TRUE),
                          UserContact(<<"1", "2">>, "sms", TRUE) >>
    /\ numbers = << <<"+", "1", "2">>, <<"+", "9">> >>

====
